---- MODULE Spec2Model ----
(***************************************************************************)
(* GitVideo backend: the job table kept by app/main.py, the background     *)
(* pipeline process_video_generation with the provider polling loop of     *)
(* VideoService.generate_video_with_progress, the three HTTP handlers, and *)
(* the pure helpers (progress mapping, duration mapping, URL parsing,      *)
(* image-URL extraction).                                                  *)
(*                                                                         *)
(* All handlers and the pipeline are coroutines on one event loop, so a    *)
(* step of the model is the code that runs between two awaits.             *)
(***************************************************************************)
EXTENDS Integers, Sequences, FiniteSets, TLC

(* ------------------------------ bounds --------------------------------- *)

\* number of job identifiers uuid4 can hand out in a run
MaxJobs == 2
\* the provider reports progress in steps of 100 / ProgLevels
ProgLevels == 2
\* number of lines of a file tree
MaxLines == 3
\* number of segments of a path in a file tree
MaxDepth == 2

(* ------------------------- program constants --------------------------- *)

MinDuration == 4
MaxDuration == 12
ProgressBase == 30
ProgressCap == 95
MaxImages == 5

PENDING == "pending"
PROCESSING == "processing"
COMPLETED == "completed"
FAILED == "failed"

\* None of an Optional[str] field; the code only tests such a field for
\* truthiness, where None and "" agree, so both are the empty text
None == <<>>

JobIds == 1..MaxJobs

VARIABLES
    video_jobs,   \* main.py video_jobs: job_id -> VideoStatusResponse
    task,         \* per job: the background task, its await point and locals
    disk,         \* paths of the files present in generated_videos/
    fn            \* argument and result of a helper applied in isolation

vars == <<video_jobs, task, disk, fn>>

(* ------------------------------ helpers -------------------------------- *)

Min(a, b) == IF a <= b THEN a ELSE b

RECURSIVE BitLen(_)
BitLen(n) == IF n = 0 THEN 0 ELSE 1 + BitLen(n \div 2)

RECURSIVE Pow2(_)
Pow2(n) == IF n = 0 THEN 1 ELSE 2 * Pow2(n - 1)

(***************************************************************************)
(* int(sora_progress * 0.65) as CPython computes it: the int is converted  *)
(* to a double, multiplied by the double nearest to 0.65, which is         *)
(* 0x14CCCCCCCCCCCD * 2^-53, the product is rounded to 53 significant bits *)
(* (round half to even) and int() truncates.  The 53-bit significand is    *)
(* held in three limbs of 24 bits so that no intermediate value leaves the *)
(* 32-bit range.  Defined for 0 <= p <= 100.                               *)
(***************************************************************************)
Limb == 16777216
Sig0 == 13421773
Sig1 == 13421772
Sig2 == 20

FloatMulTrunc(p) ==
    IF p = 0 THEN 0
    ELSE
      LET c0 == p * Sig0
          r0 == c0 % Limb
          c1 == p * Sig1 + (c0 \div Limb)
          r1 == c1 % Limb
          r2 == p * Sig2 + (c1 \div Limb)
          \* the exact product is (r2 * 2^48 + r1 * 2^24 + r0) / 2^53
          e  == BitLen(r2) - 5        \* bits beyond the 53 a double keeps
      IN IF e <= 0 THEN r2 \div 32
         ELSE
           LET q    == r0 \div Pow2(e)
               rem  == r0 % Pow2(e)
               half == Pow2(e - 1)
               up   == (rem > half) \/ (rem = half /\ q % 2 = 1)
               n0   == (IF up THEN q + 1 ELSE q) * Pow2(e)
               n1   == IF n0 >= Limb THEN r1 + 1 ELSE r1
               n2   == IF n1 >= Limb THEN r2 + 1 ELSE r2
           IN n2 \div 32

\* the mapping with the product rounded to nearest instead of truncated
MappedProgressRounded(sora_progress) ==
    Min(ProgressBase + (sora_progress * 65 + 50) \div 100, ProgressCap)

\* the provider's progress is a percentage
ProgressArgs == 0..100

\* int(sora_progress * 0.65), tabulated once
MappedTable == [p \in ProgressArgs |-> FloatMulTrunc(p)]

\* int() truncates towards zero and the product of doubles is symmetric in
\* the sign, so int(-p * 0.65) = -int(p * 0.65)
IntOfProduct(sora_progress) ==
    IF sora_progress >= 0 THEN MappedTable[sora_progress]
    ELSE 0 - MappedTable[0 - sora_progress]

\* main.py update_sora_progress: min(30 + int(sora_progress * 0.65), 95)
MappedProgress(sora_progress) ==
    Min(ProgressBase + IntOfProduct(sora_progress), ProgressCap)

\* the thresholds taken as strict
get_sora_duration_strict(requested_duration) ==
    IF requested_duration < 4 THEN "4"
    ELSE IF requested_duration < 8 THEN "8"
    ELSE "12"

\* video_service.py get_sora_duration: returns the value as a string
get_sora_duration(requested_duration) ==
    IF requested_duration <= 4 THEN "4"
    ELSE IF requested_duration <= 8 THEN "8"
    ELSE "12"

(* --------------------------- request inputs ---------------------------- *)

\* A URL after urlparse: scheme, host and the path as a sequence of tokens,
\* each either the separator "/" or a piece of text without a separator.
Url(scheme, host, path) == [scheme |-> scheme, host |-> host, path |-> path]

RepoUrls ==
    { Url("https", "github.com", <<"/", "octocat", "/", "Hello-World">>),
      Url("https", "github.com", <<"/", "octocat", "/", "Hello-World", ".git">>),
      Url("https", "github.com", <<"/", "octocat">>),
      Url("https", "github.com", <<>>),
      Url("", "", <<"octocat", "/", "Hello-World">>) }

\* the two ends of the accepted range and their outer neighbours
RequestDurations == {MinDuration - 1, MinDuration, MaxDuration, MaxDuration + 1}

\* request bodies: every URL with every duration, and one with a short key
Requests ==
    [repo_url : RepoUrls, key_len : {20}, duration : RequestDurations]
    \cup [repo_url : RepoUrls, key_len : {19}, duration : {MinDuration}]

\* schemas.py VideoGenerationRequest: HttpUrl, min_length=20, ge=4, le=12
ValidRequest(request) ==
    /\ request.repo_url.scheme \in {"http", "https"}
    /\ request.repo_url.host # ""
    /\ request.key_len >= 20
    /\ request.duration >= MinDuration
    /\ request.duration <= MaxDuration

\* str(request.repo_url): pydantic renders a URL without a path with "/"
StrUrl(url) == IF url.path = <<>> THEN [url EXCEPT !.path = <<"/">>] ELSE url

(* ------------------------- RepoService helpers ------------------------- *)

RECURSIVE LStrip(_)
LStrip(s) == IF s # <<>> /\ Head(s) = "/" THEN LStrip(Tail(s)) ELSE s

RECURSIVE RStrip(_)
RStrip(s) ==
    IF s # <<>> /\ s[Len(s)] = "/" THEN RStrip(SubSeq(s, 1, Len(s) - 1)) ELSE s

\* str.strip("/")
Strip(s) == RStrip(LStrip(s))

\* str.split("/"): a part is the sequence of its tokens, "" is << >>
RECURSIVE Split(_)
Split(s) ==
    IF s = <<>> THEN << <<>> >>
    ELSE IF Head(s) = "/" THEN << <<>> >> \o Split(Tail(s))
    ELSE LET rest == Split(Tail(s))
         IN << <<Head(s)>> \o Head(rest) >> \o Tail(rest)

\* raise ValueError("Invalid GitHub URL format")
ValueError == [ok |-> FALSE, owner |-> <<>>, repo |-> <<>>]

\* repo_service.py RepoService._parse_github_url
_parse_github_url(url) ==
    LET path_parts == Split(Strip(url.path))
    IN IF Len(path_parts) < 2 THEN ValueError
       ELSE [ok |-> TRUE, owner |-> path_parts[1],
             repo  |-> SelectSeq(path_parts[2], LAMBDA t : t # ".git")]

(* ------------------------- image URL extraction ------------------------ *)

\* A line of text is a sequence of tokens; a token holds no "/" and no
\* newline unless it is the separator itself.
PathTokens == {"logo.png", "assets"}

\* paths of the items of a git tree: 1..MaxDepth names
RECURSIVE PathsOfDepth(_)
PathsOfDepth(n) ==
    IF n = 1 THEN {<<t>> : t \in PathTokens}
    ELSE {p \o <<"/", t>> : p \in PathsOfDepth(n - 1), t \in PathTokens}

TreePaths == UNION {PathsOfDepth(n) : n \in 1..MaxDepth}

\* the two-character prefixes of a rendered line: the folder emoji and a
\* space for a directory, the page emoji and a space for a file
DirMark == "(folder) "
FileMark == "(page) "
\* the characters line.lstrip removes: box-drawing characters and the space
TreeChars == {"(vertical)", " ", "(tee)", "(corner)", "(horizontal)"}

\* an item of the provider's tree is a directory unless its name has an extension
ItemType(path) == IF path[Len(path)] = "assets" THEN "tree" ELSE "blob"

\* repo_service.py _fetch_file_tree: one rendered line per item
TreeLine(path) ==
    <<IF ItemType(path) = "tree" THEN DirMark ELSE FileMark>> \o path

\* "\n".join(tree_lines) followed by split("\n"): the lines of the text;
\* the empty text has one empty line
TreeText(paths) ==
    IF paths = <<>> THEN << <<>> >> ELSE [i \in 1..Len(paths) |-> TreeLine(paths[i])]

\* trees of up to max_lines items with distinct paths
RECURSIVE TreesOfLen(_)
TreesOfLen(n) ==
    IF n = 0 THEN {<<>>}
    ELSE {Append(t, p) : t \in TreesOfLen(n - 1), p \in TreePaths}

Distinct(seq) == \A a, b \in 1..Len(seq) : a # b => seq[a] # seq[b]

FileTrees(max_lines) ==
    {t \in UNION {TreesOfLen(n) : n \in 0..max_lines} : Distinct(t)}

image_extensions == {"png", "jpg", "jpeg", "gif", "webp", "svg"}
\* the extension of the tokens in use
Extension(token) == IF token = "logo.png" THEN "png" ELSE ""

subdirs == <<"assets", "images", "img", "docs", "static", "public">>

\* line.lstrip of the tree-drawing characters
RECURSIVE LStripTree(_)
LStripTree(line) ==
    IF line # <<>> /\ Head(line) \in TreeChars
    THEN LStripTree(Tail(line)) ELSE line

\* stripped.replace(dir mark, "").replace(file mark, "").strip()
Filename(line) ==
    SelectSeq(LStripTree(line), LAMBDA t : t \notin {DirMark, FileMark})

\* subdir in file_tree.lower()
SubdirInTree(lines, subdir) ==
    \E i \in 1..Len(lines) : \E k \in 1..Len(lines[i]) : lines[i][k] = subdir

RawUrl(owner, repo, filename) ==
    <<"https://raw.githubusercontent.com/", owner, "/", repo, "/main/">> \o filename

AltUrl(owner, repo, subdir, filename) ==
    <<"https://raw.githubusercontent.com/", owner, "/", repo, "/main/", subdir, "/">>
        \o filename

InSeq(x, seq) == \E i \in 1..Len(seq) : seq[i] = x

\* the inner loop over the common subdirectories, from index k on
RECURSIVE AddAltUrls(_, _, _, _, _, _)
AddAltUrls(image_urls, lines, owner, repo, filename, k) ==
    IF k > Len(subdirs) THEN image_urls
    ELSE LET alt_url == AltUrl(owner, repo, subdirs[k], filename)
             next == IF SubdirInTree(lines, subdirs[k]) /\ ~InSeq(alt_url, image_urls)
                     THEN Append(image_urls, alt_url) ELSE image_urls
         IN AddAltUrls(next, lines, owner, repo, filename, k + 1)

\* the body of the loop over the lines for one line
AddLineUrls(image_urls, lines, owner, repo, line) ==
    LET filename == Filename(line)
        is_image == filename # <<>>
                    /\ Extension(filename[Len(filename)]) \in image_extensions
    IN IF ~is_image THEN image_urls
       ELSE AddAltUrls(Append(image_urls, RawUrl(owner, repo, filename)),
                       lines, owner, repo, filename, 1)

RECURSIVE ScanLines(_, _, _, _, _)
ScanLines(image_urls, lines, owner, repo, i) ==
    IF i > Len(lines) THEN image_urls
    ELSE ScanLines(AddLineUrls(image_urls, lines, owner, repo, lines[i]),
                   lines, owner, repo, i + 1)

\* repo_service.py RepoService._extract_image_urls
_extract_image_urls(lines, owner, repo) ==
    LET image_urls == ScanLines(<<>>, lines, owner, repo, 1)
    IN SubSeq(image_urls, 1, Min(MaxImages, Len(image_urls)))

(* ------------------------- repository ingestion ------------------------ *)

\* a JSON object is a function from its keys; {} has no key
EmptyDict == <<>>

\* dict.get(key, default)
Get(dict, key, default) == IF key \in DOMAIN dict THEN dict[key] ELSE default

\* what the five fetches return when they succeed
FetchedRepoInfo ==
    [name |-> <<"Hello-World">>, description |-> <<"My first repository">>,
     language |-> <<"Python">>, stargazers_count |-> 7, forks_count |-> 2]
FetchedLanguages == << <<"Python">>, <<"Shell">> >>
FetchedReadme == <<"# Hello-World">>
FetchedTree == TreeText(<< <<"README.md">>, <<"assets">>, <<"assets", "/", "logo.png">> >>)
FetchedTopics == << <<"demo">> >>

\* repo_service.py RepoService._build_summary: the parts joined by newlines
_build_summary(repo_info, languages, readme) ==
    << <<"Repository: ">> \o Get(repo_info, "name", <<"Unknown">>) >>
    \o (IF Get(repo_info, "description", None) # None
        THEN << <<"Description: ">> \o repo_info.description >> ELSE <<>>)
    \o (IF languages # <<>>
        THEN << <<"Languages: ">> \o SubSeq(languages, 1, Min(5, Len(languages))) >>
        ELSE <<>>)
    \o (IF Get(repo_info, "stargazers_count", 0) # 0
        THEN << <<"Stars: ", ToString(repo_info.stargazers_count)>> >> ELSE <<>>)
    \o (IF readme # None THEN << <<"README Preview: ">> \o readme >> ELSE <<>>)

\* the names of the tree that contain one of the key patterns
key_patterns == {"README.md"}

\* repo_service.py RepoService._identify_key_files
_identify_key_files(lines) ==
    LET hits == SelectSeq(lines, LAMBDA line : \E k \in 1..Len(line) : line[k] \in key_patterns)
        names == [i \in 1..Len(hits) |->
                    SelectSeq(hits[i], LAMBDA t : t \notin {DirMark, FileMark})]
    IN SubSeq(names, 1, Min(10, Len(names)))

\* ingest_repository with gather raising the first exception of a fetch
ingest_repository_strict(repo_url, returned) ==
    LET parsed == _parse_github_url(repo_url)
    IN IF parsed = ValueError \/ \E i \in 1..5 : ~returned[i] THEN ValueError
       ELSE [ok |-> TRUE, name |-> FetchedRepoInfo.name,
             description |-> FetchedRepoInfo.description,
             language |-> FetchedRepoInfo.language,
             languages |-> FetchedLanguages, topics |-> FetchedTopics,
             stars |-> FetchedRepoInfo.stargazers_count,
             forks |-> FetchedRepoInfo.forks_count,
             file_tree |-> FetchedTree,
             summary |-> _build_summary(FetchedRepoInfo, FetchedLanguages, FetchedReadme),
             key_files |-> _identify_key_files(FetchedTree),
             readme_content |-> FetchedReadme,
             image_urls |-> _extract_image_urls(FetchedTree, parsed.owner, parsed.repo)]

\* repo_service.py RepoService.ingest_repository: returned[i] tells whether
\* the i-th fetch of the gather returned (TRUE) or raised (FALSE); the result
\* is the RepoData, or the ValueError of the URL parser
ingest_repository(repo_url, returned) ==
    LET parsed == _parse_github_url(repo_url)
    IN IF parsed = ValueError THEN ValueError
       ELSE LET repo_info == IF returned[1] THEN FetchedRepoInfo ELSE EmptyDict
                languages == IF returned[2] THEN FetchedLanguages ELSE <<>>
                readme    == IF returned[3] THEN FetchedReadme ELSE None
                file_tree == IF returned[4] THEN FetchedTree ELSE TreeText(<<>>)
                topics    == IF returned[5] THEN FetchedTopics ELSE <<>>
            IN [ok |-> TRUE,
                name |-> Get(repo_info, "name", parsed.repo),
                description |-> Get(repo_info, "description", None),
                language |-> Get(repo_info, "language", None),
                languages |-> languages, topics |-> topics,
                stars |-> Get(repo_info, "stargazers_count", 0),
                forks |-> Get(repo_info, "forks_count", 0),
                file_tree |-> file_tree,
                summary |-> _build_summary(repo_info, languages, readme),
                key_files |-> _identify_key_files(file_tree),
                readme_content |-> readme,
                image_urls |-> _extract_image_urls(file_tree, parsed.owner, parsed.repo)]

(* ------------------------------ job table ------------------------------ *)

\* a new job stored as already being processed
NewJobStarted(job_id) ==
    [job_id |-> job_id, status |-> PROCESSING,
     message |-> <<"Analyzing repository...">>, progress |-> 5,
     video_url |-> None, video_path |-> None]

\* main.py generate_video: the record stored for a new job
NewJob(job_id) ==
    [job_id |-> job_id, status |-> PENDING,
     message |-> <<"Video generation queued">>, progress |-> 0,
     video_url |-> None, video_path |-> None]

\* one message/progress assignment pair of process_video_generation
SetProgress(jobs, job_id, message, progress) ==
    [jobs EXCEPT ![job_id].message = message, ![job_id].progress = progress]

\* the callback writing to every record of the table
update_sora_progress_all(jobs, job_id, sora_progress, message) ==
    IF job_id \in DOMAIN jobs
    THEN [k \in DOMAIN jobs |->
            [jobs[k] EXCEPT !.progress = MappedProgress(sora_progress),
                            !.message = message]]
    ELSE jobs

\* main.py update_sora_progress
update_sora_progress(jobs, job_id, sora_progress, message) ==
    IF job_id \in DOMAIN jobs
    THEN [jobs EXCEPT ![job_id].progress = MappedProgress(sora_progress),
                      ![job_id].message = message]
    ELSE jobs

\* the except branch without the assignment of the status
FailJobKeepStatus(jobs, job_id, e) ==
    [jobs EXCEPT ![job_id].message = <<"Error: ">> \o e,
                 ![job_id].progress = 0]

\* the except branch without the reset of progress
FailJobKeepProgress(jobs, job_id, e) ==
    [jobs EXCEPT ![job_id].status = FAILED,
                 ![job_id].message = <<"Error: ">> \o e]

\* main.py process_video_generation, the except branch
FailJob(jobs, job_id, e) ==
    [jobs EXCEPT ![job_id].status = FAILED,
                 ![job_id].message = <<"Error: ">> \o e,
                 ![job_id].progress = 0]

\* video_service.py generate_video_with_progress, the except branch
WrapError(e) == <<"Video generation failed: ">> \o e

\* the file _download_video_from_sora writes, keyed by the provider's id
VideoPath(video_id) == <<"generated_videos", video_id, ".mp4">>

VideoUrl(job_id) == <<"http://localhost:8000", "/api/video/", job_id>>

\* the final status update without the assignment of progress
CompleteJobKeepProgress(jobs, job_id, video_path) ==
    [jobs EXCEPT ![job_id].status = COMPLETED,
                 ![job_id].message = <<"Video generated successfully!">>,
                 ![job_id].video_path = video_path,
                 ![job_id].video_url = VideoUrl(job_id)]

\* main.py process_video_generation, the final status update
CompleteJob(jobs, job_id, video_path) ==
    [jobs EXCEPT ![job_id].status = COMPLETED,
                 ![job_id].message = <<"Video generated successfully!">>,
                 ![job_id].progress = 100,
                 ![job_id].video_path = video_path,
                 ![job_id].video_url = VideoUrl(job_id)]

(* -------------------------- background task ---------------------------- *)

\* values of the locals of a task that are not bound, or no longer read
NoUrl == Url("", "", <<>>)

NoTask ==
    [pc |-> "none", repo_url |-> NoUrl, duration |-> 0,
     seconds |-> "", video_id |-> 0, video_status |-> ""]

\* background_tasks.add_task(process_video_generation, ...)
NewTask(request) ==
    [NoTask EXCEPT !.pc = "scheduled",
                   !.repo_url = StrUrl(request.repo_url),
                   !.duration = request.duration]

\* the coroutine has returned
TaskDone == [NoTask EXCEPT !.pc = "done"]

Init ==
    /\ video_jobs = <<>>
    /\ task = [j \in JobIds |-> NoTask]
    /\ disk = {}
    /\ fn = [op |-> "none"]

(* ------------------------- provider responses -------------------------- *)

ProviderStatuses == {"queued", "in_progress", "completed", "failed"}
\* the "status" key may be missing from the provider's JSON
Absent == "absent"
\* the "progress" key may be missing or null
NoProgress == 0 - 1
ProviderProgress == {(k * 100) \div ProgLevels : k \in 0..ProgLevels}
\* the poll loop forwards the number of the response as it is; a number
\* that is not a percentage
NegativeProgress == 0 - 100

\* outcomes of POST /v1/videos
CreateResponses ==
    [kind : {"error"}, status_code : {0}, has_id : {FALSE}, status : {Absent}]
    \cup [kind : {"http"}, status_code : {401}, has_id : {FALSE}, status : {Absent}]
    \cup [kind : {"http"}, status_code : {200}, has_id : BOOLEAN,
          status : ProviderStatuses \cup {Absent}]

\* outcomes of GET /v1/videos/{id}
PollResponses ==
    [kind : {"error"}, status : {Absent}, progress : {NoProgress}, has_error : {FALSE}]
    \cup [kind : {"http"}, status : ProviderStatuses \cup {Absent},
          progress : ProviderProgress \cup {NoProgress}, has_error : {FALSE}]
    \cup [kind : {"http"}, status : {"in_progress"},
          progress : {NegativeProgress}, has_error : {FALSE}]
    \cup [kind : {"http"}, status : {"failed"},
          progress : ProviderProgress \cup {NoProgress}, has_error : {TRUE}]

\* video_data["id"]: the provider names every video it creates differently;
\* the name given to the video of job j is j
ProviderVideoId(j) == j

\* video_data.get("error", "Unknown error")
ErrorDetail(has_error) == IF has_error THEN "provider error" ELSE "Unknown error"

(* ------------------------------ pipeline ------------------------------- *)

\* the first three assignments without the one to the status
MarkProcessingKeepStatus(jobs, job_id) ==
    SetProgress(jobs, job_id, <<"Analyzing repository...">>, 5)

\* main.py process_video_generation, the first three assignments
MarkProcessing(jobs, job_id) ==
    [SetProgress(jobs, job_id, <<"Analyzing repository...">>, 5)
        EXCEPT ![job_id].status = PROCESSING]

\* the job table after each group of assignments of the code that runs up
\* to the first await: the status update, and the except branch when the
\* synchronous start of ingest_repository (URL parsing) raises
StartWrites(j) ==
    IF _parse_github_url(task[j].repo_url) = ValueError
    THEN << MarkProcessing(video_jobs, j),
            FailJob(MarkProcessing(video_jobs, j), j, <<"Invalid GitHub URL format">>) >>
    ELSE << MarkProcessing(video_jobs, j) >>

\* main.py process_video_generation up to the first await
StartPipeline(j) ==
    /\ task[j].pc = "scheduled"
    /\ video_jobs' = StartWrites(j)[Len(StartWrites(j))]
    /\ IF _parse_github_url(task[j].repo_url) = ValueError
       THEN task' = [task EXCEPT ![j] = TaskDone]
       ELSE task' = [task EXCEPT ![j].pc = "ingest", ![j].repo_url = NoUrl]
    /\ UNCHANGED <<disk, fn>>

\* ingest_repository returns (gather runs with return_exceptions=True);
\* the task goes on to the await of generate_script
IngestReturn(j) ==
    /\ task[j].pc = "ingest"
    /\ video_jobs' =
          SetProgress(SetProgress(video_jobs, j, <<"Repository analyzed successfully">>, 15),
                      j, <<"Creating video script with AI...">>, 20)
    /\ task' = [task EXCEPT ![j].pc = "script"]
    /\ UNCHANGED <<disk, fn>>

\* generate_script returns or raises; on success the task enters
\* generate_video_with_progress and awaits the create request
ScriptReturn(j, ok) ==
    /\ task[j].pc = "script"
    /\ IF ok
       THEN /\ video_jobs' =
                 update_sora_progress(
                   SetProgress(SetProgress(video_jobs, j, <<"Video script created">>, 25),
                               j, <<"Starting video generation with Sora (this may take several minutes)...">>, 30),
                   j, 0, <<"Submitting video to Sora...">>)
            /\ task' = [task EXCEPT ![j].pc = "create",
                                    ![j].seconds = get_sora_duration(task[j].duration),
                                    ![j].duration = 0]
       ELSE /\ video_jobs' = FailJob(video_jobs, j, <<"text provider error">>)
            /\ task' = [task EXCEPT ![j] = TaskDone]
    /\ UNCHANGED <<disk, fn>>

\* the code after the status is known, without the test for "failed"
AfterStatusNoFailedTest(j, jobs, video_id, video_status, error_msg) ==
    IF video_status \in {"queued", "in_progress"}
    THEN /\ video_jobs' = jobs
         /\ task' = [task EXCEPT ![j].pc = "poll", ![j].seconds = "",
                                 ![j].video_id = video_id,
                                 ![j].video_status = video_status]
    ELSE /\ video_jobs' = update_sora_progress(jobs, j, 95, <<"Downloading video...">>)
         /\ task' = [task EXCEPT ![j].pc = "download", ![j].seconds = "",
                                 ![j].video_id = video_id,
                                 ![j].video_status = video_status]

\* generate_video_with_progress from the test of the while loop to the next
\* await: sleep and poll, raise on "failed", or announce and start the download
AfterStatus(j, jobs, video_id, video_status, error_msg) ==
    IF video_status \in {"queued", "in_progress"}
    THEN /\ video_jobs' = jobs
         /\ task' = [task EXCEPT ![j].pc = "poll", ![j].seconds = "",
                                 ![j].video_id = video_id,
                                 ![j].video_status = video_status]
    ELSE IF video_status = "failed"
    THEN /\ video_jobs' = FailJob(jobs, j,
                 WrapError(<<"Video generation failed in Sora: ", error_msg>>))
         /\ task' = [task EXCEPT ![j] = TaskDone]
    ELSE /\ video_jobs' = update_sora_progress(jobs, j, 95, <<"Downloading video...">>)
         /\ task' = [task EXCEPT ![j].pc = "download", ![j].seconds = "",
                                 ![j].video_id = video_id,
                                 ![j].video_status = video_status]

\* video_data.get("status", "queued")
CreateStatus(r) == IF r.status = Absent THEN "queued" ELSE r.status

\* the create request returns
CreateReturn(j, r) ==
    /\ task[j].pc = "create"
    /\ IF r.kind = "error"
       THEN /\ video_jobs' = FailJob(video_jobs, j, WrapError(<<"request error">>))
            /\ task' = [task EXCEPT ![j] = TaskDone]
       ELSE IF r.status_code # 200
       THEN /\ video_jobs' = FailJob(video_jobs, j,
                    WrapError(<<"Sora API returned ", ToString(r.status_code), ": ", "body">>))
            /\ task' = [task EXCEPT ![j] = TaskDone]
       ELSE IF ~r.has_id
       THEN /\ video_jobs' = FailJob(video_jobs, j, WrapError(<<"'id'">>))
            /\ task' = [task EXCEPT ![j] = TaskDone]
       ELSE AfterStatus(j,
                update_sora_progress(video_jobs, j, 5,
                                     <<"Video queued, waiting for processing...">>),
                ProviderVideoId(j),
                CreateStatus(r),
                "Unknown error")
    /\ UNCHANGED <<disk, fn>>

\* video_data.get("status", "in_progress")
PollStatus(r) == IF r.status = Absent THEN "in_progress" ELSE r.status

\* video_data.get("progress", 0) or 0
PollProgress(r) == IF r.progress = NoProgress THEN 0 ELSE r.progress

\* status_msg of the poll loop
StatusMsg(r) ==
    IF PollStatus(r) = "queued" THEN <<"Queued...">>
    ELSE <<"Generating video... ", ToString(PollProgress(r)), "%">>

\* asyncio.sleep(10) returns and the status request returns: no statement
\* runs between the two awaits, so they are one await point of the model
PollReturn(j, r) ==
    /\ task[j].pc = "poll"
    /\ IF r.kind = "error"
       THEN /\ video_jobs' = FailJob(video_jobs, j, WrapError(<<"request error">>))
            /\ task' = [task EXCEPT ![j] = TaskDone]
       ELSE AfterStatus(j,
                update_sora_progress(video_jobs, j, PollProgress(r), StatusMsg(r)),
                task[j].video_id, PollStatus(r), ErrorDetail(r.has_error))
    /\ UNCHANGED <<disk, fn>>

\* _download_video_from_sora returns or raises; on success the file is on
\* disk, the last callback runs and the job is completed
DownloadReturn(j, ok) ==
    /\ task[j].pc = "download"
    /\ IF ok
       THEN /\ disk' = disk \cup {VideoPath(task[j].video_id)}
            /\ video_jobs' =
                 CompleteJob(update_sora_progress(video_jobs, j, 100, <<"Video ready!">>),
                             j, VideoPath(task[j].video_id))
       ELSE /\ disk' = disk
            /\ video_jobs' = FailJob(video_jobs, j,
                    WrapError(<<"Failed to download video: ", "request error">>))
    /\ task' = [task EXCEPT ![j] = TaskDone]
    /\ UNCHANGED fn

\* a file of the output directory is removed from outside the program
DeleteFile(path) ==
    /\ path \in disk
    /\ disk' = disk \ {path}
    /\ UNCHANGED <<video_jobs, task, fn>>

(* ------------------------------ handlers ------------------------------- *)
(* The response of a handler is a function of the request and of the job   *)
(* table at the time of the call; the operators below compute it, and the  *)
(* actions are the effect of the call on the state.                        *)

\* POST /api/generate: the response for a request given the uuid4 drawn
generate_video_response(request, job_id) ==
    IF ~ValidRequest(request)
    THEN [code |-> 422, job_id |-> 0, status_url |-> <<>>]
    ELSE [code |-> 200, job_id |-> job_id, status_url |-> <<"/api/status/", job_id>>]

\* the handler storing the new record in a fresh table
generate_video_fresh_table(request, job_id) ==
    IF ~ValidRequest(request)
    THEN UNCHANGED <<video_jobs, task>>
    ELSE /\ job_id \notin DOMAIN video_jobs
         /\ video_jobs' = (job_id :> NewJob(job_id))
         /\ task' = [task EXCEPT ![job_id] = NewTask(request)]

\* POST /api/generate: pydantic rejects the body before the handler runs;
\* otherwise the record is stored and the background task is added
generate_video(request, job_id) ==
    IF ~ValidRequest(request)
    THEN UNCHANGED <<video_jobs, task>>
    ELSE /\ job_id \notin DOMAIN video_jobs
         /\ video_jobs' = (job_id :> NewJob(job_id)) @@ video_jobs
         /\ task' = [task EXCEPT ![job_id] = NewTask(request)]

Submit(request) ==
    /\ \E job_id \in JobIds : generate_video(request, job_id)
    /\ UNCHANGED <<disk, fn>>

\* GET /api/status/{job_id}: the status code and the snapshot returned
get_video_status(job_id) ==
    IF job_id \notin DOMAIN video_jobs
    THEN [code |-> 404, body |-> <<"Job not found">>]
    ELSE [code |-> 200, body |-> video_jobs[job_id]]

GetStatus(job_id) ==
    /\ get_video_status(job_id).code \in {200, 404}
    /\ UNCHANGED vars

\* the download handler without the test of the status
get_video_no_status_test(job_id) ==
    IF job_id \notin DOMAIN video_jobs
    THEN [code |-> 404, body |-> <<"Job not found">>]
    ELSE LET job == video_jobs[job_id]
             video_path == IF job.video_path # None THEN job.video_path
                           ELSE job.video_url
         IN IF video_path = None
            THEN [code |-> 404, body |-> <<"Video file not found">>]
            ELSE IF video_path \in disk
            THEN [code |-> 200, body |-> video_path]
            ELSE [code |-> 404, body |-> <<"Video file not found at ">> \o video_path]

\* GET /api/video/{job_id}: the status code and what is returned
get_video(job_id) ==
    IF job_id \notin DOMAIN video_jobs
    THEN [code |-> 404, body |-> <<"Job not found">>]
    ELSE LET job == video_jobs[job_id]
             video_path == IF job.video_path # None THEN job.video_path
                           ELSE job.video_url
         IN IF job.status # COMPLETED
            THEN [code |-> 400, body |-> <<"Video not ready yet">>]
            ELSE IF video_path = None
            THEN [code |-> 404, body |-> <<"Video file not found">>]
            ELSE IF video_path \in disk
            THEN [code |-> 200, body |-> video_path]
            ELSE [code |-> 404, body |-> <<"Video file not found at ">> \o video_path]

GetVideo(job_id) ==
    /\ get_video(job_id).code \in {200, 400, 404}
    /\ UNCHANGED vars

(* ---------------------- helpers applied in isolation ------------------- *)

DurationArgs == 0..16

FnInputs(max_lines) ==
    {[op |-> "update_sora_progress", arg |-> p, done |-> FALSE, out |-> 0] :
        p \in ProgressArgs}
    \cup {[op |-> "get_sora_duration", arg |-> d, done |-> FALSE, out |-> ""] :
        d \in DurationArgs}
    \cup {[op |-> "_extract_image_urls", arg |-> TreeText(t), done |-> FALSE, out |-> <<>>] :
        t \in FileTrees(max_lines)}
    \cup {[op |-> "ingest_repository",
           arg |-> [repo_url |-> StrUrl(u), returned |-> f],
           done |-> FALSE, out |-> ValueError] :
        u \in RepoUrls, f \in [1..5 -> BOOLEAN]}

InitFn ==
    /\ video_jobs = <<>>
    /\ task = [j \in JobIds |-> NoTask]
    /\ disk = {}
    /\ fn \in FnInputs(MaxLines)

ApplyMappedProgress ==
    /\ fn.op = "update_sora_progress" /\ ~fn.done
    /\ fn' = [fn EXCEPT !.done = TRUE, !.out = MappedProgress(fn.arg)]
    /\ UNCHANGED <<video_jobs, task, disk>>

ApplySoraDuration ==
    /\ fn.op = "get_sora_duration" /\ ~fn.done
    /\ fn' = [fn EXCEPT !.done = TRUE, !.out = get_sora_duration(fn.arg)]
    /\ UNCHANGED <<video_jobs, task, disk>>

ApplyExtractImageUrls ==
    /\ fn.op = "_extract_image_urls" /\ ~fn.done
    /\ fn' = [fn EXCEPT !.done = TRUE,
                        !.out = _extract_image_urls(fn.arg, "octocat", "Hello-World")]
    /\ UNCHANGED <<video_jobs, task, disk>>

ApplyIngestRepository ==
    /\ fn.op = "ingest_repository" /\ ~fn.done
    /\ fn' = [fn EXCEPT !.done = TRUE,
                        !.out = ingest_repository(fn.arg.repo_url, fn.arg.returned)]
    /\ UNCHANGED <<video_jobs, task, disk>>

NextFn ==
    \/ ApplyMappedProgress
    \/ ApplySoraDuration
    \/ ApplyExtractImageUrls
    \/ ApplyIngestRepository

FnSpec == InitFn /\ [][NextFn]_vars

(* ---------------------------- specification ---------------------------- *)

\* a step of the background task of job j
PipelineStep(j) ==
    \/ StartPipeline(j)
    \/ IngestReturn(j)
    \/ \E ok \in BOOLEAN : ScriptReturn(j, ok)
    \/ \E r \in CreateResponses : CreateReturn(j, r)
    \/ \E r \in PollResponses : PollReturn(j, r)
    \/ \E ok \in BOOLEAN : DownloadReturn(j, ok)

Next ==
    \/ \E request \in Requests : Submit(request)
    \/ \E j \in JobIds : PipelineStep(j)
    \/ \E j \in JobIds : GetStatus(j)
    \/ \E j \in JobIds : GetVideo(j)
    \/ \E j \in JobIds : DeleteFile(VideoPath(ProviderVideoId(j)))

Spec == Init /\ [][Next]_vars

(***************************************************************************)
(* Liveness: the event loop runs every task that can take a step, and      *)
(* every provider call returns or raises, so each task is weakly fair.     *)
(* The tasks share nothing but the job table, and liveness is checked for  *)
(* the jobs of LiveJobIds running concurrently.                            *)
(***************************************************************************)
LiveJobIds == {1, 2}

LiveSubmit(request) ==
    /\ \E job_id \in LiveJobIds : generate_video(request, job_id)
    /\ UNCHANGED <<disk, fn>>

LiveNext ==
    \/ \E request \in Requests : LiveSubmit(request)
    \/ \E j \in LiveJobIds : PipelineStep(j)
    \/ \E j \in LiveJobIds : DeleteFile(VideoPath(ProviderVideoId(j)))

FairSpec ==
    Init /\ [][LiveNext]_vars /\ \A j \in LiveJobIds : WF_vars(PipelineStep(j))

(* ------------------------------- claims -------------------------------- *)

Known(j) == j \in DOMAIN video_jobs
Status(j) == video_jobs[j].status
Progress(j) == video_jobs[j].progress
Terminal(j) == Known(j) /\ Status(j) \in {COMPLETED, FAILED}
InPollLoop(j) == task[j].pc = "poll"

\* C1: while a job stays Processing, no step lowers its progress.
C1_ProgressNonDecreasing ==
    [][\A j \in JobIds :
        (Known(j) /\ Status(j) = PROCESSING /\ video_jobs'[j].status = PROCESSING)
            => video_jobs'[j].progress >= Progress(j)]_vars

\* C2 as stated: every submitted job eventually becomes Completed or Failed.
C2_EventuallyTerminal ==
    \A j \in JobIds : Known(j) ~> Terminal(j)

\* C2 as amended: every submitted job eventually becomes Completed or Failed
\* unless from some point on it stays in the polling loop for ever.
C2_TerminalUnlessPollingForever ==
    \A j \in JobIds : (<>[]InPollLoop(j)) \/ (Known(j) ~> Terminal(j))

C2_Witness ==
    \E j \in JobIds : Terminal(j) /\ Status(j) = COMPLETED /\ task[j].pc = "done"

\* C3: the step that creates a job leaves it Pending with progress 0 and its
\* task not started, so that getStatus on the new identifier returns
\* Pending/0; the record stays so until the task takes its first step.
C3_PendingAfterSubmit ==
    /\ [][\A j \in JobIds :
            (~Known(j) /\ j \in DOMAIN video_jobs')
                => /\ task'[j].pc = "scheduled"
                   /\ get_video_status(j)'.code = 200
                   /\ get_video_status(j)'.body.status = PENDING
                   /\ get_video_status(j)'.body.progress = 0]_vars
    /\ [](\A j \in JobIds :
            task[j].pc = "scheduled"
                => /\ get_video_status(j).code = 200
                   /\ get_video_status(j).body.status = PENDING
                   /\ get_video_status(j).body.progress = 0)

C3_Witness ==
    \E j \in JobIds :
        /\ task[j].pc = "scheduled"
        /\ get_video_status(j).body.status = PENDING
        /\ \E k \in JobIds : k # j /\ Known(k) /\ Status(k) = PROCESSING

\* C4: fetchArtifact answers NotFound (404) for an unknown identifier, else
\* InvalidState (400) unless the job is Completed, else the stored file when
\* the recorded path is on disk and NotFound (404) when it is not.
C4_FetchArtifact ==
    \A j \in JobIds :
        LET r == get_video(j)
        IN IF ~Known(j) THEN r.code = 404
           ELSE IF Status(j) # COMPLETED THEN r.code = 400
           ELSE IF video_jobs[j].video_path \in disk
                THEN r.code = 200 /\ r.body = video_jobs[j].video_path
                ELSE r.code = 404

C4_Witness ==
    \E j \in JobIds :
        /\ Known(j) /\ Status(j) = COMPLETED
        /\ video_jobs[j].video_path \notin disk
        /\ get_video(j).code = 404

\* C5: a task ends only in two ways: at the return of a successful download
\* with the job Completed, or, whenever an error was raised (URL parsing,
\* script, create, poll, provider status failed, download), with the job
\* Failed; a Failed job has progress 0, a message that begins with "Error:"
\* and a task that has ended without raising.
C5_ErrorsFailTheJob ==
    /\ [][\A j \in JobIds :
            (task[j].pc # "done" /\ task'[j].pc = "done")
                => \/ video_jobs'[j].status = FAILED
                   \/ /\ video_jobs'[j].status = COMPLETED
                      /\ task[j].pc = "download"
                      /\ video_jobs'[j].video_path \in disk']_vars
    /\ [](\A j \in JobIds :
            /\ (Known(j) /\ Status(j) = FAILED)
                  => /\ Progress(j) = 0
                     /\ Head(video_jobs[j].message) = "Error: "
                     /\ task[j].pc = "done"
            /\ task[j].pc = "done" => Terminal(j))

C5_Witness ==
    \E j \in JobIds :
        /\ Known(j) /\ Status(j) = FAILED
        /\ Len(video_jobs[j].message) >= 3
        /\ video_jobs[j].message[3] = "Video generation failed in Sora: "

\* C6: a Completed job has progress 100, a non-empty artifact path and a
\* video_url ending in /api/video/ followed by its own identifier, and no
\* step changes the record of a Completed job.
C6_CompletedIsFinal ==
    /\ [](\A j \in JobIds :
            (Known(j) /\ Status(j) = COMPLETED)
                => /\ Progress(j) = 100
                   /\ Len(video_jobs[j].video_path) > 0
                   /\ Len(video_jobs[j].video_url) >= 2
                   /\ SubSeq(video_jobs[j].video_url,
                             Len(video_jobs[j].video_url) - 1,
                             Len(video_jobs[j].video_url)) = <<"/api/video/", j>>)
    /\ [][\A j \in JobIds :
            (Known(j) /\ Status(j) = COMPLETED) => video_jobs'[j] = video_jobs[j]]_vars

C6_Witness ==
    \E j \in JobIds :
        /\ Known(j) /\ Status(j) = COMPLETED
        /\ \E k \in JobIds : k # j /\ InPollLoop(k)

\* C7: a submission whose URL is not a URL, or whose path has fewer than two
\* segments, creates no job record and schedules no task.
C7_MalformedUrlRejected ==
    [][\A request \in Requests :
        (Submit(request) /\ ~(ValidRequest(request)
                               /\ _parse_github_url(StrUrl(request.repo_url)).ok))
            => UNCHANGED <<video_jobs, task>>]_vars

\* C8: the displayed progress for provider progress p is
\* min(30 + floor(65 p / 100), 95), which is 30 at 0, 95 at 100, and does not
\* decrease when p grows.
C8_ProgressMapping ==
    (fn.op = "update_sora_progress" /\ fn.done)
        => /\ fn.out = Min(30 + (65 * fn.arg) \div 100, 95)
           /\ fn.arg = 0 => fn.out = 30
           /\ fn.arg = 100 => fn.out = 95
           /\ \A q \in ProgressArgs : fn.arg <= q => fn.out <= MappedProgress(q)

C8_Witness ==
    fn.op = "update_sora_progress" /\ fn.done /\ fn.arg = 100 /\ fn.out = 95

CandidateUrls(lines, i) ==
    {RawUrl("octocat", "Hello-World", Filename(lines[i]))}
    \cup {AltUrl("octocat", "Hello-World", subdirs[k], Filename(lines[i])) :
            k \in 1..Len(subdirs)}

\* C10: the image-URL list has at most 5 entries, lists the URLs in the
\* order of the lines they were found in, and holds no URL twice.
C10_ImageUrls ==
    (fn.op = "_extract_image_urls" /\ fn.done)
        => /\ Len(fn.out) <= 5
           /\ \A a, b \in 1..Len(fn.out) :
                 a < b => \E ia, ib \in 1..Len(fn.arg) :
                            /\ ia <= ib
                            /\ fn.out[a] \in CandidateUrls(fn.arg, ia)
                            /\ fn.out[b] \in CandidateUrls(fn.arg, ib)
           /\ Distinct(fn.out)

\* an identifier submit has returned: its background task was added
Returned(j) == task[j].pc # "none"

\* C11: no step removes a job from the table; getStatus answers 200 with the
\* current record for every identifier submit has returned, at every later
\* point, and NotFound (404) exactly for the identifiers submit has not
\* returned; getStatus and fetchArtifact leave the job table unchanged.
C11_JobsNeverDeleted ==
    /\ [][\A j \in JobIds : Known(j) => j \in DOMAIN video_jobs']_vars
    /\ [](\A j \in JobIds :
            /\ Returned(j) <=> Known(j)
            /\ Returned(j) => get_video_status(j) = [code |-> 200, body |-> video_jobs[j]]
            /\ get_video_status(j).code = 404 <=> ~Returned(j))
    /\ [][\A j \in JobIds :
            (GetStatus(j) \/ GetVideo(j)) => video_jobs' = video_jobs]_vars

C11_Witness ==
    \E j, k \in JobIds :
        /\ task[j].pc = "done" /\ get_video_status(j).code = 200
        /\ get_video_status(j).body.status = FAILED
        /\ task[k].pc = "poll" /\ get_video_status(k).body.status = PROCESSING

\* the place of a progress message in the sequence submission, queued,
\* per-poll, download, ready; 0 for any other message
UpdateRank(message) ==
    IF message = <<"Submitting video to Sora...">> THEN 1
    ELSE IF message = <<"Video queued, waiting for processing...">> THEN 2
    ELSE IF Head(message) \in {"Queued...", "Generating video... "} THEN 3
    ELSE IF message = <<"Downloading video...">> THEN 4
    ELSE IF message = <<"Video ready!">> THEN 5
    ELSE 0

\* the task of job j is inside generate_video_with_progress
InRequester(j) == task[j].pc \in {"create", "poll", "download"}

\* C12: while a job is with the video requester its record shows the updates
\* in the order submission, queued, per-poll, download, ready, and every
\* update a step applies before the download update is still the content of
\* the record when the step ends (a status reader runs only between steps):
\* the queued update after the create request has returned, the per-poll
\* update after a status request has returned.
C12_UpdatesOrderedAndVisible ==
    [][\A j \in JobIds :
        /\ (InRequester(j) /\ InRequester(j)')
              => /\ UpdateRank(video_jobs[j].message) > 0
                 /\ UpdateRank(video_jobs'[j].message) >= UpdateRank(video_jobs[j].message)
        /\ \A r \in CreateResponses :
              (CreateReturn(j, r) /\ InRequester(j)')
                 => video_jobs'[j].message = <<"Video queued, waiting for processing...">>
        /\ \A r \in PollResponses :
              (PollReturn(j, r) /\ InRequester(j)')
                 => /\ video_jobs'[j].message = StatusMsg(r)
                    /\ video_jobs'[j].progress = MappedProgress(PollProgress(r))]_vars

\* the step changes the record or the task of job j
Touched(j) ==
    \/ task'[j] # task[j]
    \/ Known(j) # (j \in DOMAIN video_jobs')
    \/ Known(j) /\ video_jobs'[j] # video_jobs[j]

\* C13: a step changes the record or the task of at most one job, and no
\* step of the pipeline of one job changes the record or the task of another
\* job, so no write of one pipeline replaces a write of another; a task is
\* added for an identifier only once, when the identifier is new, and is
\* never added again; a record changes only while its own task is running.
C13_PipelinesDoNotInterfere ==
    /\ [][/\ Cardinality({j \in JobIds : Touched(j)}) <= 1
          /\ \A j \in JobIds :
               /\ task'[j].pc = "scheduled"
                     => (task'[j] = task[j] \/ (task[j].pc = "none" /\ ~Known(j)))
               /\ (task[j].pc \in {"none", "done"} /\ Known(j))
                     => video_jobs'[j] = video_jobs[j]
               /\ task'[j].pc = "none" => task[j].pc = "none"]_vars
    /\ [](\A j \in JobIds :
            ~ENABLED (PipelineStep(j) /\ \E k \in JobIds \ {j} : Touched(k)))

C13_Witness ==
    \E j, k \in JobIds :
        /\ j # k /\ InPollLoop(j) /\ InPollLoop(k)
        /\ Progress(j) # Progress(k)
        /\ video_jobs[j].message # video_jobs[k].message

\* C14: for a URL that parses to an owner and a name, ingest_repository
\* returns a RepoData with a summary for every combination of fetches that
\* return and fetches that raise, with the fetched value of every fetch that
\* returned and the empty default of every fetch that raised; it fails only
\* for a URL that does not parse.
C14_IngestTolerance ==
    (fn.op = "ingest_repository" /\ fn.done)
        => LET parsed == _parse_github_url(fn.arg.repo_url)
               returned == fn.arg.returned
               data == fn.out
           IN /\ data.ok <=> parsed.ok
              /\ data.ok =>
                   /\ Len(data.summary) >= 1
                   /\ Head(Head(data.summary)) = "Repository: "
                   /\ data.name = IF returned[1] THEN FetchedRepoInfo.name ELSE parsed.repo
                   /\ data.description =
                         IF returned[1] THEN FetchedRepoInfo.description ELSE None
                   /\ data.stars = IF returned[1] THEN FetchedRepoInfo.stargazers_count ELSE 0
                   /\ data.forks = IF returned[1] THEN FetchedRepoInfo.forks_count ELSE 0
                   /\ data.languages = IF returned[2] THEN FetchedLanguages ELSE <<>>
                   /\ data.readme_content = IF returned[3] THEN FetchedReadme ELSE None
                   /\ data.file_tree = IF returned[4] THEN FetchedTree ELSE TreeText(<<>>)
                   /\ data.topics = IF returned[5] THEN FetchedTopics ELSE <<>>
                   /\ ~returned[4] => (data.key_files = <<>> /\ data.image_urls = <<>>)

C14_Witness ==
    /\ fn.op = "ingest_repository" /\ fn.done
    /\ \A i \in 1..5 : ~fn.arg.returned[i]
    /\ fn.out.ok
    /\ fn.out.name = <<"Hello-World">>
    /\ fn.out.summary = << <<"Repository: ", "Unknown">> >>

\* C15: from the submission to the provider until the download starts (the
\* task awaits the create request or a poll) progress is within 30..95, and
\* from the "Downloading video..." update until the job is Completed (the
\* task awaits the download) progress is within 95..100.
C15_ProgressBands ==
    \A j \in JobIds :
        /\ task[j].pc \in {"create", "poll"}
              => (Progress(j) >= ProgressBase /\ Progress(j) <= ProgressCap)
        /\ task[j].pc = "download"
              => (video_jobs[j].message = <<"Downloading video...">>
                  /\ Progress(j) >= ProgressCap /\ Progress(j) <= 100)

\* what the requester does after a response with the given status
AfterObserved(j, observed) ==
    /\ task'[j].pc = "poll" <=> observed \in {"queued", "in_progress"}
    /\ task'[j].pc = "download" <=> observed = "completed"
    /\ observed = "failed"
          => /\ task'[j].pc = "done"
             /\ video_jobs'[j].status = FAILED
             /\ video_jobs'[j].message =
                   <<"Error: ", "Video generation failed: ",
                     "Video generation failed in Sora: ">>
                   \o <<video_jobs'[j].message[4]>>
             /\ disk' = disk

\* C16: after a create request that succeeded, the task awaits another poll
\* exactly when the status it observed last is "queued" or "in_progress" and
\* awaits the download exactly when that status is "completed"; no return of
\* a create or status request does otherwise, and a return with the status
\* "failed" ends the task with the provider error and without a download.
C16_PollUntilTerminal ==
    \A j \in JobIds :
        /\ task[j].pc = "poll" <=> task[j].video_status \in {"queued", "in_progress"}
        /\ task[j].pc = "download" <=> task[j].video_status = "completed"
        /\ ~ENABLED (\E r \in CreateResponses :
                        /\ r.kind = "http" /\ r.status_code = 200 /\ r.has_id
                        /\ CreateReturn(j, r)
                        /\ ~AfterObserved(j, CreateStatus(r)))
        /\ ~ENABLED (\E r \in PollResponses :
                        /\ r.kind = "http"
                        /\ PollReturn(j, r)
                        /\ ~AfterObserved(j, PollStatus(r)))

C16_Witness ==
    \E j, k \in JobIds :
        /\ task[j].pc = "download" /\ task[j].video_status = "completed"
        /\ Progress(j) = 91
        /\ task[k].pc = "done" /\ Status(k) = FAILED
        /\ Len(video_jobs[k].message) = 4
        /\ video_jobs[k].message[3] = "Video generation failed in Sora: "
        /\ video_jobs[k].message[4] = "provider error"

\* C17: the progress of every job is an integer from 0 to 100 in every
\* reachable state, whatever progress the status responses carried.
C17_ProgressInRange ==
    \A j \in JobIds :
        Known(j) => (Progress(j) \in Int /\ Progress(j) >= 0 /\ Progress(j) <= 100)

\* one change of the status the claim allows
AllowedChange(s, t) ==
    \/ s = t
    \/ s = PENDING /\ t = PROCESSING
    \/ s = PROCESSING /\ t \in {COMPLETED, FAILED}

\* C18: a job is created Pending; every write of its status is a change from
\* Pending to Processing or from Processing to Completed or Failed, so the
\* status is never set from Pending to a terminal value and never goes
\* back; no field of a Completed or Failed record changes again.  The first
\* step of a task writes the status once or twice (StartWrites), every
\* other step at most once.
C18_StatusTransitions ==
    [][\A j \in JobIds :
        /\ (~Known(j) /\ j \in DOMAIN video_jobs') => video_jobs'[j].status = PENDING
        /\ Known(j) =>
              IF task[j].pc = "scheduled" /\ task'[j].pc # "scheduled"
              THEN LET path == <<video_jobs>> \o StartWrites(j)
                   IN /\ path[Len(path)] = video_jobs'
                      /\ \A i \in 1..(Len(path) - 1) :
                            AllowedChange(path[i][j].status, path[i + 1][j].status)
              ELSE AllowedChange(Status(j), video_jobs'[j].status)
        /\ Terminal(j) => video_jobs'[j] = video_jobs[j]]_vars

C18_Witness ==
    \E j, k \in JobIds :
        /\ Known(j) /\ Status(j) = FAILED
        /\ video_jobs[j].message = <<"Error: ", "Invalid GitHub URL format">>
        /\ Known(k) /\ Status(k) = COMPLETED

====
